---- MODULE Spec2Model ----
(***************************************************************************)
(* Model of src/modules/directory.rs: the directory module of the prompt.  *)
(*                                                                         *)
(* A string is a sequence of Unicode scalar values (integers); its byte    *)
(* length is the length of its UTF-8 encoding.  A path is the sequence of  *)
(* components std::path::Path::components() yields for it.  A component is *)
(* a record [kind, text, prefix].                                          *)
(***************************************************************************)
EXTENDS Integers, Sequences, FiniteSets, TLC

VARIABLES ctx, out, prev, cp, wp

vars == <<ctx, out, prev, cp, wp>>

(***************************************************************************)
(* Bounds of the model.                                                    *)
(***************************************************************************)
MaxDepth == 3
MaxTrunc == 2
MaxFish == 2

(***************************************************************************)
(* Characters the source names.                                            *)
(***************************************************************************)
SLASH == 47
BACKSLASH == 92
COLON == 58
DOT == 46
UPPER_A == 65
UPPER_Z == 90
HOME_SYMBOL == <<126>>
ELLIPSIS == <<8230>>

(***************************************************************************)
(* Strings: UTF-8 widths, byte slicing, grapheme clusters.                 *)
(***************************************************************************)
len_utf8(c) ==
    IF c < 128 THEN 1 ELSE IF c < 2048 THEN 2 ELSE IF c < 65536 THEN 3 ELSE 4

RECURSIVE byte_len(_)
byte_len(s) == IF s = <<>> THEN 0 ELSE len_utf8(Head(s)) + byte_len(Tail(s))

\* s[0..n] on a str: the bytes before byte index n.  It panics when n is
\* past the end of s or is not on a char boundary.
str_slice_to(s, n) ==
    LET ks == {k \in 0..Len(s) : byte_len(SubSeq(s, 1, k)) = n}
    IN  IF ks = {}
        THEN [ok |-> FALSE, s |-> <<>>]
        ELSE [ok |-> TRUE, s |-> SubSeq(s, 1, CHOOSE k \in ks : TRUE)]

\* Grapheme_Extend: the combining diacritical marks U+0300..U+036F.
is_extend(c) == c >= 768 /\ c <= 879

\* UnicodeSegmentation::graphemes(word, true): a cluster is a scalar value
\* followed by the combining marks that extend it.
RECURSIVE graphemes(_)
graphemes(s) ==
    IF s = <<>> THEN <<>>
    ELSE LET ends == {k \in 1..Len(s) : k = Len(s) \/ ~is_extend(s[k + 1])}
             e == CHOOSE k \in ends : \A j \in ends : k <= j
         IN  <<SubSeq(s, 1, e)>> \o graphemes(SubSeq(s, e + 1, Len(s)))

RECURSIVE concat(_)
concat(ss) == IF ss = <<>> THEN <<>> ELSE Head(ss) \o concat(Tail(ss))

\* [String]::join(separator)
RECURSIVE join(_, _)
join(ss, sep) ==
    IF ss = <<>> THEN <<>>
    ELSE IF Len(ss) = 1 THEN Head(ss)
    ELSE Head(ss) \o sep \o join(Tail(ss), sep)

to_ascii_lowercase(c) == IF c >= UPPER_A /\ c <= UPPER_Z THEN c + 32 ELSE c

(***************************************************************************)
(* Path components.                                                        *)
(***************************************************************************)
NoPrefix == [kind |-> "None", disk |-> 0, server |-> <<>>, share |-> <<>>, path |-> <<>>]
Disk(d) == [kind |-> "Disk", disk |-> d, server |-> <<>>, share |-> <<>>, path |-> <<>>]
VerbatimDisk(d) == [kind |-> "VerbatimDisk", disk |-> d, server |-> <<>>, share |-> <<>>, path |-> <<>>]
UNC(sv, sh) == [kind |-> "UNC", disk |-> 0, server |-> sv, share |-> sh, path |-> <<>>]
VerbatimUNC(sv, sh) == [kind |-> "VerbatimUNC", disk |-> 0, server |-> sv, share |-> sh, path |-> <<>>]
Verbatim(p) == [kind |-> "Verbatim", disk |-> 0, server |-> <<>>, share |-> <<>>, path |-> p]
DeviceNS(p) == [kind |-> "DeviceNS", disk |-> 0, server |-> <<>>, share |-> <<>>, path |-> p]

PrefixC(p) == [kind |-> "Prefix", text |-> <<>>, prefix |-> p]
RootDir == [kind |-> "RootDir", text |-> <<>>, prefix |-> NoPrefix]
CurDir == [kind |-> "CurDir", text |-> <<>>, prefix |-> NoPrefix]
ParentDir == [kind |-> "ParentDir", text |-> <<>>, prefix |-> NoPrefix]
Normal(t) == [kind |-> "Normal", text |-> t, prefix |-> NoPrefix]

(***************************************************************************)
(* std::path operations the module uses.                                   *)
(***************************************************************************)
\* str::split(SLASH)
RECURSIVE split(_)
split(s) ==
    LET is == {i \in 1..Len(s) : s[i] = SLASH}
    IN  IF is = {} THEN <<s>>
        ELSE LET i == CHOOSE k \in is : \A j \in is : k <= j
             IN  <<SubSeq(s, 1, i - 1)>> \o split(SubSeq(s, i + 1, Len(s)))

RECURSIVE parse_body(_, _)
parse_body(pieces, first) ==
    IF pieces = <<>> THEN <<>>
    ELSE LET w == Head(pieces)
             c == IF w = <<>> THEN <<>>
                  ELSE IF w = <<DOT>> THEN (IF first THEN <<CurDir>> ELSE <<>>)
                  ELSE IF w = <<DOT, DOT>> THEN <<ParentDir>>
                  ELSE <<Normal(w)>>
         IN  c \o parse_body(Tail(pieces), FALSE)

\* PathBuf::from(&str) followed by components(): a leading separator is the
\* root, empty pieces and inner `.` pieces are dropped.
PathFrom(s) ==
    IF s # <<>> /\ s[1] = SLASH
    THEN <<RootDir>> \o parse_body(split(Tail(s)), FALSE)
    ELSE parse_body(split(s), TRUE)

\* The path as a string, components separated by SLASH.
path_str(p) ==
    LET pre == SelectSeq(p, LAMBDA c : c.kind = "Prefix")
        rooted == \E i \in 1..Len(p) : p[i].kind = "RootDir"
        body == SelectSeq(p, LAMBDA c : c.kind \notin {"Prefix", "RootDir"})
    IN  concat([i \in 1..Len(pre) |-> <<pre[i].prefix.disk, COLON>>])
        \o (IF rooted THEN <<SLASH>> ELSE <<>>)
        \o join([i \in 1..Len(body) |->
                    IF body[i].kind = "CurDir" THEN <<DOT>>
                    ELSE IF body[i].kind = "ParentDir" THEN <<DOT, DOT>>
                    ELSE body[i].text], <<SLASH>>)

\* Mutant of strip_prefix: the prefix test done by string slicing.
strip_prefix_by_string(full, base) ==
    LET f == path_str(full)
        b == path_str(base)
    IN  IF Len(b) <= Len(f) /\ SubSeq(f, 1, Len(b)) = b
        THEN [ok |-> TRUE, rest |-> PathFrom(SubSeq(f, Len(b) + 1, Len(f)))]
        ELSE [ok |-> FALSE, rest |-> <<>>]

\* Path::strip_prefix(base): std's iter_after over the two component lists.
RECURSIVE strip_prefix(_, _)
strip_prefix(full, base) ==
    IF base = <<>> THEN [ok |-> TRUE, rest |-> full]
    ELSE IF full = <<>> THEN [ok |-> FALSE, rest |-> <<>>]
    ELSE IF Head(full) = Head(base) THEN strip_prefix(Tail(full), Tail(base))
    ELSE [ok |-> FALSE, rest |-> <<>>]

is_prefix_comp(c) == c.kind = "Prefix"

\* PathBuf::push(p): a path with a prefix replaces self, a rooted path
\* replaces everything but self's prefix, a relative path is appended.
push(self, p) ==
    IF p # <<>> /\ p[1].kind = "Prefix" THEN p
    ELSE IF p # <<>> /\ p[1].kind = "RootDir" THEN SelectSeq(self, is_prefix_comp) \o p
    ELSE self \o p

\* Mutant of contract_path: the replacement is put in front of the path
\* whether or not the top-level path was stripped.
contract_path_always(full_path, top_level_path, top_level_replacement) ==
    LET r == strip_prefix(full_path, top_level_path)
        contracted_path == PathFrom(top_level_replacement)
    IN  IF r.ok
        THEN (IF r.rest # <<>> THEN push(contracted_path, r.rest)
              ELSE contracted_path)
        ELSE push(contracted_path, full_path)

contract_path(full_path, top_level_path, top_level_replacement) ==
    LET r == strip_prefix(full_path, top_level_path)
    IN  IF r.ok
        THEN LET contracted_path == PathFrom(top_level_replacement)
             IN  IF r.rest # <<>> THEN push(contracted_path, r.rest)
                 ELSE contracted_path
        ELSE full_path

(***************************************************************************)
(* get_separator and get_windows_prefix.                                   *)
(***************************************************************************)
get_separator(shell, windows) ==
    IF shell \in {"bash", "zsh", "fish"} THEN <<SLASH>>
    ELSE IF windows THEN <<BACKSLASH>> ELSE <<SLASH>>

\* Mutant of get_windows_prefix: the drive letter is not lower-cased.
get_windows_prefix_keep_case(prefix, separator) ==
    IF prefix.kind \in {"Disk", "VerbatimDisk"}
    THEN IF separator # <<>> /\ separator[1] = SLASH
         THEN <<SLASH, prefix.disk>>
         ELSE <<prefix.disk, COLON>>
    ELSE IF prefix.kind \in {"UNC", "VerbatimUNC"}
    THEN separator \o separator \o prefix.server \o separator \o prefix.share
    ELSE prefix.path

get_windows_prefix(prefix, separator) ==
    IF prefix.kind \in {"Disk", "VerbatimDisk"}
    THEN IF separator # <<>> /\ separator[1] = SLASH
         THEN <<SLASH, to_ascii_lowercase(prefix.disk)>>
         ELSE <<to_ascii_lowercase(prefix.disk), COLON>>
    ELSE IF prefix.kind \in {"UNC", "VerbatimUNC"}
    THEN separator \o separator \o prefix.server \o separator \o prefix.share
    ELSE prefix.path

(***************************************************************************)
(* module(context): the rendered directory segment.                        *)
(***************************************************************************)
\* context.get_repo(): Err, or a Repo whose root is None or Some(path).
RepoErr == [ok |-> FALSE, has_root |-> FALSE, root |-> <<>>]
RepoNone == [ok |-> TRUE, has_root |-> FALSE, root |-> <<>>]
RepoAt(r) == [ok |-> TRUE, has_root |-> TRUE, root |-> r]

\* Mutant of home_dir_contracted: the path is contracted to the repository
\* root when truncate_to_repo is set, to the home directory otherwise.
repo_contracted(c) ==
    IF /\ c.repo.has_root /\ c.truncate_to_repo /\ c.repo.root # c.home_dir
       /\ c.repo.root # <<>> /\ c.repo.root[Len(c.repo.root)].kind = "Normal"
    THEN contract_path(c.current_dir, c.repo.root, c.repo.root[Len(c.repo.root)].text)
    ELSE contract_path(c.current_dir, c.home_dir, HOME_SYMBOL)

\* The path the module renders: only the home directory is contracted.
home_dir_contracted(c) == contract_path(c.current_dir, c.home_dir, HOME_SYMBOL)

is_prefix_or_root(c) == c.kind \in {"Prefix", "RootDir"}
is_path_part(c) == ~is_prefix_or_root(c)

\* Mutant of first_full_part: the length is taken for the index.
first_full_part_as_count(len, truncation_length) ==
    IF len > truncation_length THEN truncation_length ELSE 0

\* path_parts.len().saturating_sub(truncation_length)
first_full_part(len, truncation_length) ==
    IF len > truncation_length THEN len - truncation_length ELSE 0

\* A component of the shown tail: to_string_lossy() of valid Unicode is the
\* text itself.
full_component(c) ==
    IF c.kind = "CurDir" THEN <<DOT>>
    ELSE IF c.kind = "ParentDir" THEN <<DOT, DOT>>
    ELSE c.text

\* A component of the elided head in fish style: a byte slice of the text.
truncated_component(c, fish_style_pwd_dir_length) ==
    IF c.kind = "CurDir" THEN [ok |-> TRUE, s |-> <<DOT>>]
    ELSE IF c.kind = "ParentDir" THEN [ok |-> TRUE, s |-> <<DOT, DOT>>]
    ELSE str_slice_to(c.text, fish_style_pwd_dir_length)

NotRun ==
    [ret |-> "NotRun", result |-> <<>>, path_parts |-> <<>>,
     truncated_parts |-> <<>>, abbrev |-> <<>>, full_parts |-> <<>>]

module(c) ==
    IF ~c.repo.ok
    THEN [NotRun EXCEPT !.ret = "None"]
    ELSE
    LET contracted == home_dir_contracted(c)
        prefix == SelectSeq(contracted, is_prefix_or_root)
        path_parts == SelectSeq(contracted, is_path_part)
        separator == get_separator(c.shell, c.windows)
        prefix_str ==
            concat([i \in 1..Len(prefix) |->
                      IF prefix[i].kind = "Prefix"
                      THEN get_windows_prefix(prefix[i].prefix, separator)
                      ELSE separator])
        first == first_full_part(Len(path_parts), c.truncation_length)
        truncated_parts == SubSeq(path_parts, 1, first)
        fish == c.fish_style_pwd_dir_length
        abbrev ==
            IF Len(truncated_parts) > 0 /\ fish > 0
            THEN [i \in 1..Len(truncated_parts) |->
                    truncated_component(truncated_parts[i], fish)]
            ELSE <<>>
        panicked == \E i \in 1..Len(abbrev) : ~abbrev[i].ok
        head ==
            IF Len(truncated_parts) > 0
            THEN (IF fish > 0
                  THEN join([i \in 1..Len(abbrev) |-> abbrev[i].s], separator)
                  ELSE ELLIPSIS) \o separator
            ELSE <<>>
        full_parts == SubSeq(path_parts, first + 1, Len(path_parts))
        full_part ==
            join([i \in 1..Len(full_parts) |-> full_component(full_parts[i])],
                 separator)
    IN  IF panicked
        THEN [ret |-> "Panic", result |-> <<>>, path_parts |-> path_parts,
              truncated_parts |-> truncated_parts, abbrev |-> abbrev,
              full_parts |-> <<>>]
        ELSE [ret |-> "Some", result |-> prefix_str \o head \o full_part,
              path_parts |-> path_parts, truncated_parts |-> truncated_parts,
              abbrev |-> abbrev, full_parts |-> full_parts]

(***************************************************************************)
(* Inputs.                                                                 *)
(***************************************************************************)
\* Directory names: `b`, `b2`, `.st`, U+76EE U+5F55 (two CJK characters),
\* and `a` + U+0310 (combining) followed by U+00E9.
NameB == <<98>>
NameB2 == <<98, 50>>
NameDot == <<DOT, 115, 116>>
NameCJK == <<30446, 24405>>
NameComb == <<97, 784, 233>>
Names == {NameB2, NameDot, NameCJK, NameComb}
ContractNames == {NameB, NameB2, NameCJK}

RECURSIVE SeqsUpTo(_, _)
SeqsUpTo(S, n) ==
    IF n = 0 THEN {<<>>}
    ELSE LET shorter == SeqsUpTo(S, n - 1)
         IN  shorter \cup {Append(q, x) : q \in shorter, x \in S}

\* The root of an absolute path: `/`, or `C:\` on Windows.
Root(windows) == IF windows THEN <<PrefixC(Disk(67)), RootDir>> ELSE <<RootDir>>

Envs ==
    {[shell |-> "", windows |-> FALSE], [shell |-> "", windows |-> TRUE],
     [shell |-> "bash", windows |-> TRUE]}

HomeBodies == {<<Normal(NameB2)>>, <<Normal(NameCJK), Normal(NameDot)>>}

\* A repository root at or above the current directory.
RootsAbove(dir, windows) ==
    LET n == Len(Root(windows))
    IN  {SubSeq(dir, 1, IF Len(dir) > n THEN n + 1 ELSE n)}

\* current_dir is the directory the module settled on (the physical one, or
\* context.current_dir); home_dir is dirs::home_dir(), which the module
\* requires to exist.
Contexts ==
    {[current_dir |-> Root(e.windows) \o b, home_dir |-> Root(e.windows) \o h,
      repo |-> RepoNone, truncate_to_repo |-> FALSE,
      truncation_length |-> l, fish_style_pwd_dir_length |-> f,
      shell |-> e.shell, windows |-> e.windows] :
        e \in Envs,
        b \in SeqsUpTo({Normal(n) : n \in Names}, MaxDepth),
        h \in HomeBodies, l \in 0..MaxTrunc, f \in 0..MaxFish}

Repos(c) == {RepoErr, RepoNone} \cup {RepoAt(r) : r \in RootsAbove(c.current_dir, c.windows)}

NoContext ==
    [current_dir |-> <<>>, home_dir |-> <<>>, repo |-> RepoErr,
     truncate_to_repo |-> FALSE, truncation_length |-> 0,
     fish_style_pwd_dir_length |-> 0, shell |-> "", windows |-> FALSE]

NoPrev ==
    [valid |-> FALSE, repo_ok |-> FALSE, has_root |-> FALSE, ret |-> "NotRun",
     result |-> <<>>]

ContractPaths ==
    {Root(w) \o b : w \in BOOLEAN,
                    b \in SeqsUpTo({Normal(n) : n \in ContractNames}, MaxDepth)}

TopLevelPaths ==
    {Root(w) \o b : w \in BOOLEAN,
                    b \in {<<>>, <<Normal(NameB)>>, <<Normal(NameB), Normal(NameB2)>>,
                           <<Normal(NameCJK)>>}}

Tokens == {HOME_SYMBOL, NameB}

NoContract ==
    [n |-> 0, full_path |-> <<>>, top_level_path |-> <<>>, token |-> <<>>,
     out |-> <<>>, first_out |-> <<>>]

DriveLetters == (UPPER_A..UPPER_Z) \cup {to_ascii_lowercase(d) : d \in UPPER_A..UPPER_Z}

Prefixes ==
    {Disk(d) : d \in DriveLetters} \cup {VerbatimDisk(d) : d \in DriveLetters}
    \cup {UNC(NameB, NameB2), VerbatimUNC(NameCJK, NameB), Verbatim(NameB2),
          DeviceNS(<<67, 79, 77, 49>>)}

Separators == {<<SLASH>>, <<BACKSLASH>>}

NoWindowsPrefix == [n |-> 0, prefix |-> NoPrefix, separator |-> <<>>, out |-> <<>>]

(***************************************************************************)
(* The state machine: one render, optionally repeated with another         *)
(* repository; one contraction, optionally repeated on its own output;     *)
(* one prefix formatting.                                                  *)
(***************************************************************************)
Init ==
    /\ ctx = NoContext
    /\ out = NotRun
    /\ prev = NoPrev
    /\ cp = NoContract
    /\ wp = NoWindowsPrefix

Idle == out.ret = "NotRun" /\ cp.n = 0 /\ wp.n = 0

Module ==
    /\ Idle
    /\ \E c \in Contexts : \E r \in Repos(c), t \in BOOLEAN :
          /\ ctx' = [c EXCEPT !.repo = r, !.truncate_to_repo = t]
          /\ out' = module(ctx')
    /\ UNCHANGED <<prev, cp, wp>>

\* The same directory rendered again with another repository lookup result
\* and truncate_to_repo setting.
ModuleAgain ==
    /\ out.ret # "NotRun"
    /\ ~prev.valid
    /\ \E r \in Repos(ctx), t \in BOOLEAN :
          /\ <<r, t>> # <<ctx.repo, ctx.truncate_to_repo>>
          /\ ctx' = [ctx EXCEPT !.repo = r, !.truncate_to_repo = t]
          /\ out' = module(ctx')
    /\ prev' = [valid |-> TRUE, repo_ok |-> ctx.repo.ok,
                has_root |-> ctx.repo.has_root, ret |-> out.ret,
                result |-> out.result]
    /\ UNCHANGED <<cp, wp>>

ContractPath ==
    /\ Idle
    /\ \E p \in ContractPaths, top \in TopLevelPaths, tok \in Tokens :
          cp' = [n |-> 1, full_path |-> p, top_level_path |-> top, token |-> tok,
                 out |-> contract_path(p, top, tok), first_out |-> <<>>]
    /\ UNCHANGED <<ctx, out, prev, wp>>

\* contract_path applied to its own output with the same rule.
ContractAgain ==
    /\ cp.n = 1
    /\ cp' = [cp EXCEPT !.n = 2, !.full_path = cp.out, !.first_out = cp.out,
                        !.out = contract_path(cp.out, cp.top_level_path, cp.token)]
    /\ UNCHANGED <<ctx, out, prev, wp>>

GetWindowsPrefix ==
    /\ Idle
    /\ \E p \in Prefixes, sep \in Separators :
          wp' = [n |-> 1, prefix |-> p, separator |-> sep,
                 out |-> get_windows_prefix(p, sep)]
    /\ UNCHANGED <<ctx, out, prev, cp>>

Next == Module \/ ModuleAgain \/ ContractPath \/ ContractAgain \/ GetWindowsPrefix

Spec == Init /\ [][Next]_vars

(***************************************************************************)
(* Properties.                                                             *)
(***************************************************************************)
\* The render went past the repository lookup.
Rendered == out.ret \in {"Some", "Panic"}

Min(a, b) == IF a < b THEN a ELSE b

\* The first n grapheme clusters of a text, concatenated.
FirstClusters(text, n) ==
    LET g == graphemes(text) IN concat(SubSeq(g, 1, Min(n, Len(g))))

ClusterCount(text) == Len(graphemes(text))

HasEllipsis(str) == \E i \in 1..Len(str) : str[i] = ELLIPSIS[1]

IsSuffix(t, str) ==
    Len(t) <= Len(str) /\ SubSeq(str, Len(str) - Len(t) + 1, Len(str)) = t

Texts(parts) == [i \in 1..Len(parts) |-> full_component(parts[i])]

\* The elided Normal components of a fish-style render that truncates.
ElidedNormal ==
    IF Rendered /\ ctx.fish_style_pwd_dir_length > 0 /\ ctx.truncation_length > 0
    THEN {i \in 1..Len(out.truncated_parts) : out.truncated_parts[i].kind = "Normal"}
    ELSE {}

\* C1: with truncation_length = 0 nothing is elided: the head is empty, the
\* tail is every body component in order, and the output has no ellipsis and
\* no abbreviated component.
C1_ZeroNeverTruncates ==
    (Rendered /\ ctx.truncation_length = 0) =>
        /\ out.ret = "Some"
        /\ out.truncated_parts = <<>>
        /\ out.abbrev = <<>>
        /\ out.full_parts = out.path_parts
        /\ ~HasEllipsis(out.result)

\* C2: in fish style every elided Normal component is abbreviated to its
\* first fish_style_pwd_dir_length grapheme clusters, each kept whole, and
\* the abbreviation never fails.
C2_FishCountsClusters ==
    \A i \in ElidedNormal :
        /\ out.abbrev[i].ok
        /\ out.abbrev[i].s =
              FirstClusters(out.truncated_parts[i].text, ctx.fish_style_pwd_dir_length)

C5_FishBound ==
    \A i \in ElidedNormal :
        LET text == out.truncated_parts[i].text
            n == ctx.fish_style_pwd_dir_length
            a == out.abbrev[i]
        IN  /\ a.ok
            /\ ClusterCount(text) <= n => a.s = text
            /\ ClusterCount(a.s) <= (IF text[1] = DOT THEN n + 1 ELSE n)
            /\ ClusterCount(a.s) <= ClusterCount(text)

\* C6: in fish style an elided component that begins with a dot and has more
\* than fish_style_pwd_dir_length clusters is abbreviated to its first
\* fish_style_pwd_dir_length + 1 clusters.
C6_DotKeepsOneMore ==
    \A i \in ElidedNormal :
        LET text == out.truncated_parts[i].text
            n == ctx.fish_style_pwd_dir_length
        IN  (text[1] = DOT /\ ClusterCount(text) > n) =>
                /\ out.abbrev[i].ok
                /\ out.abbrev[i].s = FirstClusters(text, n + 1)

\* C7: when the repository lookup finds no repository root the render does
\* not fail: it returns the rendering of the home-contracted current directory.
C7_NoRepoStillRenders ==
    (out.ret # "NotRun" /\ ctx.repo.ok /\ ~ctx.repo.has_root) =>
        /\ out.ret = "Some"
        /\ out.path_parts =
              SelectSeq(contract_path(ctx.current_dir, ctx.home_dir, HOME_SYMBOL),
                        is_path_part)

\* C8: a Disk or VerbatimDisk prefix renders as the lower-cased letter and a
\* colon with the backslash separator, and as a slash and the lower-cased
\* letter with the slash separator: two characters, none upper-case.
C8_DriveLetterLowerCased ==
    (wp.n = 1 /\ wp.prefix.kind \in {"Disk", "VerbatimDisk"}) =>
        LET d == wp.prefix.disk
            letter == IF wp.separator = <<SLASH>> THEN wp.out[2] ELSE wp.out[1]
        IN  /\ Len(wp.out) = 2
            /\ wp.separator = <<BACKSLASH>> => wp.out[2] = COLON
            /\ wp.separator = <<SLASH>> => wp.out[1] = SLASH
            /\ letter \in 97..122
            /\ letter = d \/ letter = d + 32
            /\ \A i \in 1..Len(wp.out) : wp.out[i] \notin UPPER_A..UPPER_Z

C8_Witness ==
    /\ wp.n = 1
    /\ wp.prefix = VerbatimDisk(67)
    /\ wp.separator = <<SLASH>>
    /\ wp.out = <<SLASH, 99>>

\* C9: contracting a contracted path again with the same rule changes
\* nothing, when the token is not itself the top-level path.
C9_ContractIdempotent ==
    (cp.n = 2 /\ PathFrom(cp.token) # cp.top_level_path) => cp.out = cp.first_out

C9_Witness ==
    /\ cp.n = 2
    /\ Len(cp.first_out) > 1
    /\ cp.first_out[1] = Normal(cp.token)
    /\ cp.out = cp.first_out

====
